---- MODULE Spec2Model ----
(***************************************************************************)
(* CSS selector builder of src/src/06-objects-tasks.js: the CssSelector    *)
(* class (constructor, validateOrder, the six category methods, combine,   *)
(* stringify) and the cssSelectorBuilder facade.                           *)
(*                                                                         *)
(* Builders are objects on a heap; a builder's identity is its index in    *)
(* the heap.  Strings are TLA+ strings, concatenated with \o.  A JavaScript*)
(* throw is modelled by the err field of a method's result.                *)
(***************************************************************************)
EXTENDS Integers, Sequences, FiniteSets, TLC

VARIABLES heap, origin, accepted, last

vars == <<heap, origin, accepted, last>>

(***************************************************************************)
(* Bounds of the exploration.                                              *)
(***************************************************************************)
MaxParts == 3

Values == {"a", "b"}
Combinators == {"+", " "}

(***************************************************************************)
(* Outcomes of a call.                                                     *)
(***************************************************************************)
NoError == "none"
OrderError == "Selector parts should be arranged in the following order: element, id, class, attribute, pseudo-class, pseudo-element"
UniqueError == "Element, id and pseudo-element should not occur more then one time inside the selector"
TypeError == "TypeError"

(***************************************************************************)
(* CssSelector: constructor and fields.                                    *)
(***************************************************************************)
order == <<"element", "id", "class", "attr", "pseudoClass", "pseudoElement">>

Categories == {order[i] : i \in 1..Len(order)}

\* Array.prototype.indexOf: zero-based position, -1 when absent.
indexOf(arr, x) ==
    IF \E i \in 1..Len(arr) : arr[i] = x
    THEN (CHOOSE i \in 1..Len(arr) : arr[i] = x /\ \A j \in 1..(i - 1) : arr[j] # x) - 1
    ELSE -1

CssSelector == [parts |-> <<>>, usedParts |-> {}]

Ok(self) == [err |-> NoError, self |-> self]
Throw(e, self) == [err |-> e, self |-> self]

\* Variants of validateOrder, each with one plausible slip.
\* The ordering comparison is left out.
validateOrder_noOrderCheck(self, partType) ==
    IF partType \in {"element", "id", "pseudoElement"} /\ partType \in self.usedParts
    THEN Throw(UniqueError, self)
    ELSE Ok([self EXCEPT !.usedParts = @ \cup {partType}])

\* The uniqueness test is left out.
validateOrder_noUniqueCheck(self, partType) ==
    LET n == Len(self.parts)
    IN  IF n > 0 /\ indexOf(order, partType) < indexOf(order, self.parts[n].type)
        THEN Throw(OrderError, self)
        ELSE Ok([self EXCEPT !.usedParts = @ \cup {partType}])

\* The category is recorded as used before the checks run.
validateOrder_addFirst(self, partType) ==
    LET n == Len(self.parts)
        marked == [self EXCEPT !.usedParts = @ \cup {partType}]
    IN  IF n > 0 /\ indexOf(order, partType) < indexOf(order, self.parts[n].type)
        THEN Throw(OrderError, marked)
        ELSE IF partType \in {"element", "id", "pseudoElement"} /\ partType \in self.usedParts
        THEN Throw(UniqueError, marked)
        ELSE Ok(marked)

\* The category is never recorded as used.
validateOrder_noAdd(self, partType) ==
    LET n == Len(self.parts)
    IN  IF n > 0 /\ indexOf(order, partType) < indexOf(order, self.parts[n].type)
        THEN Throw(OrderError, self)
        ELSE IF partType \in {"element", "id", "pseudoElement"} /\ partType \in self.usedParts
        THEN Throw(UniqueError, self)
        ELSE Ok(self)

\* The ordering comparison rejects an equal index too.
validateOrder_strictOrder(self, partType) ==
    LET n == Len(self.parts)
    IN  IF n > 0 /\ indexOf(order, partType) <= indexOf(order, self.parts[n].type)
        THEN Throw(OrderError, self)
        ELSE IF partType \in {"element", "id", "pseudoElement"} /\ partType \in self.usedParts
        THEN Throw(UniqueError, self)
        ELSE Ok([self EXCEPT !.usedParts = @ \cup {partType}])

\* The uniqueness test runs before the ordering comparison.
validateOrder_uniqueFirst(self, partType) ==
    LET n == Len(self.parts)
    IN  IF partType \in {"element", "id", "pseudoElement"} /\ partType \in self.usedParts
        THEN Throw(UniqueError, self)
        ELSE IF n > 0 /\ indexOf(order, partType) < indexOf(order, self.parts[n].type)
        THEN Throw(OrderError, self)
        ELSE Ok([self EXCEPT !.usedParts = @ \cup {partType}])

validateOrder(self, partType) ==
    LET n == Len(self.parts)
        orderViolated ==
            /\ n > 0
            /\ indexOf(order, partType) < indexOf(order, self.parts[n].type)
    IN  IF orderViolated
        THEN Throw(OrderError, self)
        ELSE IF partType \in {"element", "id", "pseudoElement"} /\ partType \in self.usedParts
        THEN Throw(UniqueError, self)
        ELSE Ok([self EXCEPT !.usedParts = @ \cup {partType}])

\* this.parts.push(part) after a validateOrder that did not throw.
push(validated, part) ==
    IF validated.err # NoError
    THEN validated
    ELSE Ok([validated.self EXCEPT !.parts = Append(@, part)])

element(self, value) ==
    push(validateOrder(self, "element"), [type |-> "element", value |-> value])

id(self, value) ==
    push(validateOrder(self, "id"), [type |-> "id", value |-> "#" \o value])

class(self, value) ==
    push(validateOrder(self, "class"), [type |-> "class", value |-> "." \o value])

attr(self, value) ==
    push(validateOrder(self, "attr"), [type |-> "attr", value |-> "[" \o value \o "]"])

pseudoClass(self, value) ==
    push(validateOrder(self, "pseudoClass"), [type |-> "pseudoClass", value |-> ":" \o value])

pseudoElement(self, value) ==
    push(validateOrder(self, "pseudoElement"), [type |-> "pseudoElement", value |-> "::" \o value])

\* selector[cat](value): the dispatch a caller does by naming the method.
method(self, cat, value) ==
    CASE cat = "element" -> element(self, value)
      [] cat = "id" -> id(self, value)
      [] cat = "class" -> class(self, value)
      [] cat = "attr" -> attr(self, value)
      [] cat = "pseudoClass" -> pseudoClass(self, value)
      [] cat = "pseudoElement" -> pseudoElement(self, value)

\* parts.map((part) => part.value).join('')
RECURSIVE join(_)
join(parts) ==
    IF parts = <<>> THEN "" ELSE Head(parts).value \o join(Tail(parts))

Returned(s) == [err |-> NoError, value |-> s]
Raised(e) == [err |-> e, value |-> ""]

\* Variants of stringify.  Reading .type of parts[0] raises a TypeError when
\* parts is empty, which the first test of stringify prevents.
stringify_noEmptyGuard(self) ==
    IF Len(self.parts) = 0
    THEN Raised(TypeError)
    ELSE IF self.parts[1].type = "combined"
    THEN Returned(self.parts[1].value)
    ELSE Returned(join(self.parts))

\* A separator between the parts.
stringify_spaced(self) ==
    IF Len(self.parts) = 0
    THEN Returned("")
    ELSE IF self.parts[1].type = "combined"
    THEN Returned(self.parts[1].value)
    ELSE Returned(Head(self.parts).value \o join([i \in 1..(Len(self.parts) - 1) |->
                    [type |-> self.parts[i + 1].type, value |-> " " \o self.parts[i + 1].value]]))

\* The opaque part is looked for at the end of parts instead of the start.
stringify_lastIsCombined(self) ==
    IF Len(self.parts) = 0
    THEN Returned("")
    ELSE IF self.parts[Len(self.parts)].type = "combined"
    THEN Returned(self.parts[Len(self.parts)].value)
    ELSE Returned(join(self.parts))

stringify(self) ==
    IF Len(self.parts) = 0
    THEN Returned("")
    ELSE IF self.parts[1].type = "combined"
    THEN Returned(self.parts[1].value)
    ELSE Returned(join(self.parts))

\* Variant: the parts are reversed in place before they are read
\* (Array.prototype.reverse changes the array it is called on).
RECURSIVE reversed(_)
reversed(arr) == IF arr = <<>> THEN <<>> ELSE Append(reversed(Tail(arr)), Head(arr))

stringify_this_reversed(self) == [self EXCEPT !.parts = reversed(@)]

\* The object as stringify leaves it: length, [0], map and join only read
\* this.parts, so nothing is written.
stringify_this(self) == self

\* Variant: the parts of an operand are moved out of it (splice) instead of
\* being read.
combine_operand_moved(selector) == [selector EXCEPT !.parts = <<>>]

\* An operand as combine leaves it: combine only calls stringify() on it.
combine_operand(selector) == stringify_this(selector)

\* Variant of combine: no spaces around the combinator.
combine_tight(selector1, combinator, selector2) ==
    LET s1 == stringify(selector1)
        s2 == stringify(selector2)
    IN  IF s1.err # NoError THEN Throw(s1.err, CssSelector)
        ELSE IF s2.err # NoError THEN Throw(s2.err, CssSelector)
        ELSE Ok([CssSelector EXCEPT !.parts =
                    <<[type |-> "combined",
                       value |-> s1.value \o combinator \o s2.value]>>])

\* static combine: the result is the new object, or the error of a stringify.
combine(selector1, combinator, selector2) ==
    LET s1 == stringify(selector1)
        s2 == stringify(selector2)
    IN  IF s1.err # NoError THEN Throw(s1.err, CssSelector)
        ELSE IF s2.err # NoError THEN Throw(s2.err, CssSelector)
        ELSE Ok([CssSelector EXCEPT !.parts =
                    <<[type |-> "combined",
                       value |-> s1.value \o " " \o combinator \o " " \o s2.value]>>])

\* cssSelectorBuilder.<cat>(value): new CssSelector().<cat>(value)
cssSelectorBuilder(cat, value) == method(CssSelector, cat, value)

\* cssSelectorBuilder.combine
cssSelectorBuilder_combine(selector1, combinator, selector2) ==
    combine(selector1, combinator, selector2)

(***************************************************************************)
(* The state machine: callers holding references to builders.  The class   *)
(* is not exported, so every object is made by the facade.                 *)
(*   heap      the CssSelector objects created so far                      *)
(*   origin    how each object was made: by a facade category entry point, *)
(*             or by combine (with its operands and combinator)            *)
(*   accepted  per object, the category calls that returned, in order,     *)
(*             with the value each was given                               *)
(*   last      the most recent operation, the object and category it was  *)
(*             about, and whether it returned or threw                     *)
(***************************************************************************)
\* In the actions, r is the outcome of the one call the action makes: the
\* object as the call left it and the error it threw, if any.
Refs == 1..Len(heap)

RECURSIVE SumParts(_)
SumParts(h) == IF h = <<>> THEN 0 ELSE Len(Head(h).parts) + SumParts(Tail(h))

\* Room for one more part (every object is created with one part).
Room == SumParts(heap) < MaxParts

Op(op, obj, cat, err) ==
    [op |-> op, obj |-> obj, cat |-> cat, err |-> err]

ByFacade == [kind |-> "facade", lhs |-> 0, comb |-> "", rhs |-> 0]
ByCombine(ref1, combinator, ref2) ==
    [kind |-> "combine", lhs |-> ref1, comb |-> combinator, rhs |-> ref2]

Init ==
    /\ heap = <<>>
    /\ origin = <<>>
    /\ accepted = <<>>
    /\ last = Op("init", 0, "", NoError)

\* cssSelectorBuilder.element(value), .id(value), ...
Facade ==
    /\ Room
    /\ \E cat \in Categories, value \in Values :
       \E r \in {cssSelectorBuilder(cat, value)} :
           IF r.err = NoError
           THEN /\ heap' = Append(heap, r.self)
                /\ origin' = Append(origin, ByFacade)
                /\ accepted' = Append(accepted, <<[cat |-> cat, value |-> value]>>)
                /\ last' = Op("facade", Len(heap) + 1, cat, NoError)
           ELSE /\ UNCHANGED <<heap, origin, accepted>>
                /\ last' = Op("facade", 0, cat, r.err)

\* selector.element(value), .id(value), ... on an object already held
Call ==
    /\ Room
    /\ \E ref \in Refs, cat \in Categories, value \in Values :
       \E r \in {method(heap[ref], cat, value)} :
           /\ heap' = [heap EXCEPT ![ref] = r.self]
           /\ accepted' = IF r.err = NoError
                          THEN [accepted EXCEPT ![ref] = Append(@, [cat |-> cat, value |-> value])]
                          ELSE accepted
           /\ last' = Op("call", ref, cat, r.err)
    /\ UNCHANGED origin

\* cssSelectorBuilder.combine(selector1, combinator, selector2)
Combine ==
    /\ Room
    /\ \E ref1 \in Refs, ref2 \in Refs, combinator \in Combinators :
       \E r \in {cssSelectorBuilder_combine(heap[ref1], combinator, heap[ref2])} :
           IF r.err = NoError
           THEN /\ heap' = Append([heap EXCEPT ![ref1] = combine_operand(@),
                                                ![ref2] = combine_operand(@)], r.self)
                /\ origin' = Append(origin, ByCombine(ref1, combinator, ref2))
                /\ accepted' = Append(accepted, <<>>)
                /\ last' = Op("combine", Len(heap) + 1, "", NoError)
           ELSE /\ UNCHANGED <<heap, origin, accepted>>
                /\ last' = Op("combine", 0, "", r.err)

\* selector.stringify(): the string goes to the caller and is kept nowhere;
\* what stays observable is that the call was made and whether it threw.
Stringify ==
    /\ \E ref \in Refs :
       \E r \in {stringify(heap[ref])} :
           /\ heap' = [heap EXCEPT ![ref] = stringify_this(@)]
           /\ last' = Op("stringify", 0, "", r.err)
    /\ UNCHANGED <<origin, accepted>>

Next == Facade \/ Call \/ Combine \/ Stringify

Spec == Init /\ [][Next]_vars

(***************************************************************************)
(* Vocabulary of the properties, stated from the selector grammar and not  *)
(* from the code: the index of a category in the fixed order, the text a   *)
(* category puts around its value, the categories that may occur once.     *)
(***************************************************************************)
CategoryIndex(cat) ==
    CASE cat = "element" -> 0
      [] cat = "id" -> 1
      [] cat = "class" -> 2
      [] cat = "attr" -> 3
      [] cat = "pseudoClass" -> 4
      [] cat = "pseudoElement" -> 5
      [] OTHER -> -1

Wrapped(cat, value) ==
    CASE cat = "element" -> value
      [] cat = "id" -> "#" \o value
      [] cat = "class" -> "." \o value
      [] cat = "attr" -> "[" \o value \o "]"
      [] cat = "pseudoClass" -> ":" \o value
      [] cat = "pseudoElement" -> "::" \o value

Singletons == {"element", "id", "pseudoElement"}

FacadeRefs == {r \in Refs : origin[r].kind = "facade"}
CombinedRefs == {r \in Refs : origin[r].kind = "combine"}

\* The categories of a sequence of calls.
Cats(calls) == [i \in 1..Len(calls) |-> calls[i].cat]

\* A sequence of categories in non-decreasing order with each singleton at most once.
ValidSequence(cats) ==
    /\ \A i, j \in 1..Len(cats) : i < j => CategoryIndex(cats[i]) <= CategoryIndex(cats[j])
    /\ \A i, j \in 1..Len(cats) : (i # j /\ cats[i] = cats[j]) => cats[i] \notin Singletons

RECURSIVE Concatenation(_)
Concatenation(calls) ==
    IF calls = <<>> THEN ""
    ELSE Wrapped(Head(calls).cat, Head(calls).value) \o Concatenation(Tail(calls))

CountOf(parts, cat) == Cardinality({i \in 1..Len(parts) : parts[i].type = cat})

LastType(ref) == heap[ref].parts[Len(heap[ref].parts)].type

(***************************************************************************)
(* C1: a sequence of category calls started through the facade, in         *)
(* non-decreasing category order and with element, id and pseudoElement at *)
(* most once, raises no error, and stringify() returns the values in call  *)
(* order, each wrapped by its category's prefix and suffix, with nothing   *)
(* between them.  A facade call never fails; a failed call on a facade     *)
(* builder is one that would have made the sequence invalid.               *)
(***************************************************************************)
C1_ValidSequenceStringifies ==
    /\ \A b \in FacadeRefs :
          ValidSequence(Cats(accepted[b])) =>
              stringify(heap[b]) = Returned(Concatenation(accepted[b]))
    /\ last.op = "facade" => last.err = NoError
    /\ (last.op = "call" /\ last.err # NoError /\ last.obj \in FacadeRefs) =>
          ~ValidSequence(Append(Cats(accepted[last.obj]), last.cat))

\* id('a').class('a').class('b').stringify() => '#a.a.b'
C1_Witness ==
    \E b \in FacadeRefs :
        /\ accepted[b] = <<[cat |-> "id", value |-> "a"],
                           [cat |-> "class", value |-> "a"],
                           [cat |-> "class", value |-> "b"]>>
        /\ stringify(heap[b]) = Returned("#a.a.b")
        /\ last.op = "stringify"

(***************************************************************************)
(* C2: on a builder made by a facade category entry point, a category call *)
(* whose index is strictly less than the index of the last-appended part   *)
(* raises the ordering error and appends no part.                          *)
(***************************************************************************)
C2_LowerIndexRaisesOrderError ==
    [][(/\ last'.op = "call"
        /\ last'.obj \in FacadeRefs
        /\ CategoryIndex(last'.cat) < CategoryIndex(LastType(last'.obj)))
       => (/\ last'.err = OrderError
           /\ heap'[last'.obj].parts = heap[last'.obj].parts)]_vars

C2_Witness ==
    /\ last.op = "call"
    /\ last.obj \in FacadeRefs
    /\ last.err = OrderError
    /\ CategoryIndex(last.cat) < CategoryIndex(LastType(last.obj))

(***************************************************************************)
(* C3 as stated: once element, id or pseudoElement has been used on a      *)
(* builder, every later call to that category on that builder raises the   *)
(* uniqueness error, whatever calls succeeded in between.                  *)
(***************************************************************************)
UsedBefore(ref, cat) == \E i \in 1..Len(accepted[ref]) : accepted[ref][i].cat = cat

C3_RepeatRaisesUniqueError ==
    [][(/\ last'.op = "call"
        /\ last'.cat \in Singletons
        /\ UsedBefore(last'.obj, last'.cat))
       => last'.err = UniqueError]_vars

(***************************************************************************)
(* C3 amended: once element, id or pseudoElement has been used on a        *)
(* builder, every later call to that category on that builder raises an    *)
(* error and appends no part: the uniqueness error when the last-appended  *)
(* part has that category, and the ordering error when a part of a higher  *)
(* category was appended in between.                                       *)
(***************************************************************************)
C3_RepeatRaisesError ==
    [][(/\ last'.op = "call"
        /\ last'.cat \in Singletons
        /\ UsedBefore(last'.obj, last'.cat))
       => (/\ last'.err = (IF LastType(last'.obj) = last'.cat THEN UniqueError ELSE OrderError)
           /\ heap'[last'.obj].parts = heap[last'.obj].parts)]_vars

C3_Witness ==
    /\ last.op = "call"
    /\ last.cat \in Singletons
    /\ last.err = UniqueError
    /\ UsedBefore(last.obj, last.cat)
    /\ LastType(last.obj) = last.cat
    /\ Len(heap[last.obj].parts) >= 2

(***************************************************************************)
(* C4: for builders A and B, each built by category calls or itself made   *)
(* by combine, and every combinator c, combine(A, c, B).stringify() is     *)
(* A.stringify(), one space, c, one space, B.stringify(); a combinator of  *)
(* a single space gives three consecutive spaces between the operands.     *)
(***************************************************************************)
C4_CombineStringifies ==
    [][(last'.op = "combine" /\ last'.err = NoError)
       => LET made == origin'[last'.obj]
          IN  stringify(heap'[last'.obj]) =
                  Returned(stringify(heap[made.lhs]).value \o " " \o made.comb \o " "
                           \o stringify(heap[made.rhs]).value)]_vars

C4_Witness ==
    \E r \in CombinedRefs :
        /\ origin[r].comb = " "
        /\ origin[r].lhs \in CombinedRefs
        /\ origin[r].rhs \in FacadeRefs
        /\ origin[origin[r].lhs].comb = "+"
        /\ heap[1].parts = <<[type |-> "id", value |-> "#a"]>>
        /\ heap[2].parts = <<[type |-> "combined", value |-> "#a + #a"]>>
        /\ stringify(heap[r]) = Returned("#a + #a   #a")
        /\ last.op = "stringify"

(***************************************************************************)
(* C5: when a category call raises an error, the part sequence and the     *)
(* used-category set of the builder (and of every other builder) are what  *)
(* they were before the call.  What later calls do depends on these two    *)
(* fields only, so they behave as if the failed call had not been made.    *)
(***************************************************************************)
C5_FailedCallChangesNothing ==
    [][(last'.op = "call" /\ last'.err # NoError)
       => (heap' = heap /\ accepted' = accepted)]_vars

C5_Witness ==
    /\ last.op = "call"
    /\ last.err = OrderError
    /\ last.cat \notin heap[last.obj].usedParts

(***************************************************************************)
(* C6: in every state of a builder made by a facade category entry point,  *)
(* the categories of its parts are in non-decreasing order of index.       *)
(***************************************************************************)
C6_PartsInOrder ==
    \A b \in FacadeRefs :
        \A i, j \in 1..Len(heap[b].parts) :
            i < j => /\ CategoryIndex(heap[b].parts[i].type) >= 0
                     /\ CategoryIndex(heap[b].parts[i].type) <= CategoryIndex(heap[b].parts[j].type)

C6_Witness ==
    /\ last.op = "call"
    /\ last.obj \in FacadeRefs
    /\ last.err = OrderError
    /\ Len(heap[last.obj].parts) = 2
    /\ heap[last.obj].parts[1].type # heap[last.obj].parts[2].type

(***************************************************************************)
(* C7: in every state of every builder the part sequence holds at most one *)
(* element part, at most one id part and at most one pseudoElement part;   *)
(* class, attr and pseudoClass parts may repeat.                           *)
(***************************************************************************)
C7_SingletonsOnce ==
    \A b \in Refs : \A cat \in Singletons : CountOf(heap[b].parts, cat) <= 1

C7_Witness ==
    \E b \in Refs :
        /\ \E cat \in Singletons : CountOf(heap[b].parts, cat) = 1
        /\ \E cat \in Categories \ Singletons : CountOf(heap[b].parts, cat) = 2

(***************************************************************************)
(* C8 as stated: a builder returned by combine holds exactly one opaque    *)
(* part, and no category call on it changes its part sequence.             *)
(***************************************************************************)
C8_CombinedIsTerminal ==
    \A b \in CombinedRefs :
        /\ Len(heap[b].parts) = 1
        /\ heap[b].parts[1].type = "combined"

(***************************************************************************)
(* C9: a facade category call returns a fresh builder with exactly one     *)
(* part, the value wrapped for that category, and a used set holding that  *)
(* category only: the state of a new empty builder after the matching      *)
(* method.  It never fails, never returns a builder without parts, and     *)
(* leaves every builder returned earlier as it was.                        *)
(***************************************************************************)
C9_FacadeMakesFreshBuilder ==
    [][(last'.op = "facade")
       => (/\ last'.err = NoError
           /\ last'.obj = Len(heap) + 1
           /\ Len(heap') = Len(heap) + 1
           /\ \A r \in Refs : heap'[r] = heap[r]
           /\ \E value \in Values :
                 /\ accepted'[last'.obj] = <<[cat |-> last'.cat, value |-> value]>>
                 /\ heap'[last'.obj] =
                       [parts |-> <<[type |-> last'.cat, value |-> Wrapped(last'.cat, value)]>>,
                        usedParts |-> {last'.cat}]
                 /\ Ok(heap'[last'.obj]) = method(CssSelector, last'.cat, value))]_vars

C9_Witness ==
    /\ last.op = "facade"
    /\ last.obj = 2
    /\ Len(heap[1].parts) = 2
    /\ heap[2].parts # <<heap[1].parts[1]>>

(***************************************************************************)
(* C10: combine and stringify never raise an error, whatever builders they *)
(* are given (the empty builder of the constructor, builders made by the   *)
(* facade or by combine, before and after failed category calls) and       *)
(* whatever the combinator: combine returns a builder and stringify a      *)
(* string.                                                                 *)
(***************************************************************************)
\* Every operation is observed through last: stringify can be called in every
\* state and combine whenever there is room.  The empty builder of the
\* constructor is no object of the heap and is tried here directly.
C10_CombineAndStringifyNeverRaise ==
    /\ last.op \in {"combine", "stringify"} => last.err = NoError
    /\ stringify(CssSelector) = Returned("")
    /\ \A c \in Combinators :
          /\ combine(CssSelector, c, CssSelector).err = NoError
          /\ \A a \in Refs :
                /\ combine(heap[a], c, CssSelector).err = NoError
                /\ combine(CssSelector, c, heap[a]).err = NoError

C10_Witness ==
    /\ last.op = "combine"
    /\ last.err = NoError
    /\ origin[last.obj].lhs \in CombinedRefs
    /\ origin[last.obj].rhs \in FacadeRefs
    /\ origin[last.obj].comb = " "

(***************************************************************************)
(* C11: stringify() changes neither the part sequence nor the used set of  *)
(* any builder, and the string a builder's stringify() returns changes     *)
(* only by a category call on that builder: two stringify() calls with no  *)
(* category call on the builder in between return the same string.         *)
(***************************************************************************)
C11_StringifyHasNoEffect ==
    [][/\ last'.op = "stringify" => heap' = heap
       /\ \A b \in Refs :
             \/ last'.op = "call" /\ last'.obj = b /\ last'.err = NoError
             \/ heap'[b] = heap[b]
             \/ stringify(heap'[b]) = stringify(heap[b])]_vars

C11_Witness ==
    /\ last.op = "stringify"
    /\ \E b \in Refs :
          /\ Len(heap[b].parts) = 3
          /\ heap[b].parts[1].type # heap[b].parts[3].type
          /\ heap[b].usedParts # {}

(***************************************************************************)
(* C12: on a builder made by a facade category entry point, a category     *)
(* call whose index is greater than or equal to the last-appended part's   *)
(* index never raises the ordering error, and for class, attr and          *)
(* pseudoClass it succeeds.  Every successful category call, on any        *)
(* builder, appends exactly one part at the end (of the called category,   *)
(* wrapping the value given), leaves the earlier parts unchanged, records  *)
(* the category as used and returns the same instance: no object is        *)
(* created and no other object changes.                                    *)
(***************************************************************************)
C12_AcceptedCallAppendsOnePart ==
    [][(last'.op = "call") =>
          LET b == last'.obj
              n == Len(heap[b].parts)
          IN  /\ (b \in FacadeRefs /\ CategoryIndex(last'.cat) >= CategoryIndex(LastType(b)))
                    => /\ last'.err # OrderError
                       /\ last'.cat \notin Singletons => last'.err = NoError
              /\ last'.err = NoError
                    => /\ Len(heap'[b].parts) = n + 1
                       /\ SubSeq(heap'[b].parts, 1, n) = heap[b].parts
                       /\ \E value \in Values :
                             /\ heap'[b].parts[n + 1] =
                                   [type |-> last'.cat, value |-> Wrapped(last'.cat, value)]
                             /\ accepted'[b] = Append(accepted[b], [cat |-> last'.cat, value |-> value])
                       /\ heap'[b].usedParts = heap[b].usedParts \cup {last'.cat}
                       /\ Len(heap') = Len(heap)
                       /\ \A r \in Refs \ {b} : heap'[r] = heap[r]]_vars

C12_Witness ==
    /\ last.op = "call"
    /\ last.err = NoError
    /\ last.obj \in FacadeRefs
    /\ Len(heap[last.obj].parts) = 3
    /\ heap[last.obj].parts[2].type = last.cat
    /\ heap[last.obj].parts[3].type = last.cat
    /\ last.cat \in heap[last.obj].usedParts

(***************************************************************************)
(* C13: for a builder made by combine, stringify() returns the string      *)
(* computed at combine time in every later state: a category call on that  *)
(* builder, accepted or failed, does not change what stringify() returns,  *)
(* which stays the value of its opaque first part.                         *)
(***************************************************************************)
C13_CombinedStringIsKept ==
    [][\A b \in CombinedRefs :
          (last'.op = "call" /\ last'.obj = b)
             => /\ stringify(heap'[b]) = stringify(heap[b])
                /\ stringify(heap'[b]) = Returned(heap[b].parts[1].value)]_vars

C13_Witness ==
    /\ last.op = "call"
    /\ last.obj \in CombinedRefs
    /\ last.err = NoError
    /\ Len(heap[last.obj].parts) = 2
    /\ stringify(heap[last.obj]) \in
          {Returned(x \o " " \o c \o " " \o x) : x \in {"a", "#b", "::a"}, c \in Combinators}

(***************************************************************************)
(* C14: combine(A, c, B) leaves the part sequences and used sets of A and  *)
(* B (and of every other builder) unchanged, also when A and B are the     *)
(* same instance, and what the returned builder's stringify() gives is     *)
(* fixed at combine time: a later category call on A or B does not change  *)
(* it.                                                                     *)
(***************************************************************************)
Operands(b) == {origin[b].lhs, origin[b].rhs}

C14_CombineCopiesItsOperands ==
    [][/\ last'.op = "combine" => \A r \in Refs : heap'[r] = heap[r]
       /\ \A b \in CombinedRefs :
             (last'.op = "call" /\ last'.obj \in Operands(b) /\ last'.obj # b)
                => /\ heap'[b] = heap[b]
                   /\ stringify(heap'[b]) = stringify(heap[b])]_vars

\* combine(A, '+', A) made from A = 'a', and A extended afterwards.
C14_Witness ==
    \E b \in CombinedRefs :
        /\ origin[b].lhs = origin[b].rhs
        /\ last = Op("call", origin[b].lhs, "class", NoError)
        /\ Len(heap[origin[b].lhs].parts) = 2
        /\ stringify(heap[b]).value #
              stringify(heap[origin[b].lhs]).value \o " " \o origin[b].comb \o " "
                 \o stringify(heap[origin[b].rhs]).value

(***************************************************************************)
(* C15: the ordering check runs before the uniqueness check.  On a builder *)
(* made by a facade category entry point a call raises the uniqueness      *)
(* error exactly when its category is element, id or pseudoElement and the *)
(* last-appended part has that category; when such a category was used     *)
(* earlier and a part of a higher category was appended since, the call    *)
(* raises the ordering error.                                              *)
(***************************************************************************)
C15_OrderCheckedFirst ==
    [][(last'.op = "call" /\ last'.obj \in FacadeRefs) =>
          LET b == last'.obj
              repeatsLast == last'.cat \in Singletons /\ LastType(b) = last'.cat
          IN  /\ last'.err = UniqueError <=> repeatsLast
              /\ (/\ last'.cat \in Singletons
                  /\ UsedBefore(b, last'.cat)
                  /\ CategoryIndex(LastType(b)) > CategoryIndex(last'.cat))
                    => last'.err = OrderError]_vars

C15_Witness ==
    /\ last.op = "call"
    /\ last.obj \in FacadeRefs
    /\ last.err = OrderError
    /\ last.cat \in Singletons
    /\ last.cat \in heap[last.obj].usedParts
    /\ UsedBefore(last.obj, last.cat)

(***************************************************************************)
(* C16: once a pseudoElement call has succeeded on a builder, every later  *)
(* category call on it raises an error, the uniqueness error for           *)
(* pseudoElement and the ordering error for the five other categories, and *)
(* no step changes its parts, its used set or what stringify() returns.    *)
(***************************************************************************)
Closed(b) == UsedBefore(b, "pseudoElement")

C16_NothingAfterPseudoElement ==
    [][\A b \in Refs : Closed(b) =>
          /\ (last'.op = "call" /\ last'.obj = b)
                => last'.err = (IF last'.cat = "pseudoElement" THEN UniqueError ELSE OrderError)
          /\ heap'[b] = heap[b]
          /\ stringify(heap'[b]) = stringify(heap[b])]_vars

C16_Witness ==
    /\ last.op = "call"
    /\ Closed(last.obj)
    /\ Len(heap[last.obj].parts) = 2
    /\ last = Op("call", last.obj, "pseudoElement", UniqueError)

(***************************************************************************)
(* C17: in every state of every builder the used set is the set of the     *)
(* categories of its parts other than the opaque part: empty for a builder *)
(* just made by combine, and never enlarged by a call that failed.         *)
(***************************************************************************)
CategoriesOfParts(self) ==
    {self.parts[i].type : i \in {j \in 1..Len(self.parts) : self.parts[j].type # "combined"}}

C17_UsedSetMatchesParts ==
    /\ \A b \in Refs : heap[b].usedParts = CategoriesOfParts(heap[b])
    /\ (last.op = "combine" /\ last.err = NoError) => heap[last.obj].usedParts = {}

C17_Witness ==
    /\ last.op = "call"
    /\ last.err # NoError
    /\ last.cat \notin heap[last.obj].usedParts
    /\ \E b \in CombinedRefs : heap[b].usedParts = {} /\ Len(heap[b].parts) = 1

====
